---- MODULE Spec2Model ----
(***************************************************************************)
(* Model of the spynode core of bakketun/smart-contract:                   *)
(*   - pkg/spynode/handlers/data/mempool.go : MemPool                      *)
(*   - pkg/spynode/untrusted_node.go        : UntrustedNode                *)
(*                                                                         *)
(* Three specifications share the variables:                               *)
(*   Spec     the MemPool operations on transactions at one clock instant  *)
(*   SpecReq  the MemPool request throttle while the clock advances        *)
(*   SpecNode one UntrustedNode: Run, its three duties, Stop, BroadcastTx  *)
(***************************************************************************)
EXTENDS Integers, Sequences, FiniteSets, TLC

(***************************************************************************)
(* Bounds of the model.                                                    *)
(***************************************************************************)
NumOutpoints == 2
MaxTracked == 2
MaxTime == 4
MaxReads == 3
MaxStops == 1
MaxBroadcasts == 1

(***************************************************************************)
(* Program constants.                                                      *)
(***************************************************************************)
\* mempool.go:46  now.Sub(requestTime).Seconds() > 3
RequestTimeout == 3
\* untrusted_node.go:50  make(chan wire.Message, 100)
OutgoingCapacity == 100

VARIABLES
    txs,        \* memPool.txs      : tx hash -> outPoints of the entry
    inputs,     \* memPool.inputs   : outpoint hash -> list of tx hashes
    requests,   \* memPool.requests : tx hash -> time of the last granted request
    mutex,      \* memPool.mutex    : 0 when free, 1 when locked
    call,       \* the call that holds the mutex: where it is inside its operation
    clock,      \* what time.Now() returns, in seconds
    last        \* the operation called last, with what it returned

mpVars == <<txs, inputs, requests, mutex, call, clock, last>>

VARIABLES
    conn,           \* node.conn: "nil" or "conn", the connection Run dialed
    transport,      \* that connection: "none" before the dial, "open", "closed"
    outgoing,       \* node.outgoing: the messages buffered in the channel
    chanClosed,     \* whether close(node.outgoing) has been executed
    outgoingOpen,   \* node.outgoingOpen
    stopping,       \* node.stopping
    Active,         \* node.Active
    nodeMutex,      \* node.mutex: "free", or who holds it ("run", "broadcast")
    state,          \* node.state: the flags of the handshake
    score,          \* the sum of the deltas given to peers.UpdateScore
    pc,             \* where Run, the three duties and BroadcastTx are
    handle,         \* the value of node.conn the read and the write duty loaded
    msg,            \* the message monitorIncoming has read and not yet handled
    count,          \* how often things happened (bounds and history)
    cause,          \* why monitorIncoming left its loop, what Run and BroadcastTx returned
    log,            \* history: the messages enqueued, the messages written (SpecOrder)
    panic           \* "none", or the runtime panic that ended the process

nodeVars == <<conn, transport, outgoing, chanClosed, outgoingOpen, stopping, Active,
              nodeMutex, state, score, pc, handle, msg, count, cause, log, panic>>

vars == <<mpVars, nodeVars>>

----------------------------------------------------------------------------
(***************************************************************************)
(* Values.                                                                 *)
(***************************************************************************)
Outpoints == 1..NumOutpoints

Range(s) == {s[i] : i \in DOMAIN s}

Ascending(s) == \A i, j \in DOMAIN s : i < j => s[i] < s[j]

\* A transaction is the list of outpoints its inputs spend
\* (tx.TxIn[i].PreviousOutPoint).  The transactions of the model are those that
\* spend a non-empty set of outpoints, each once, in ascending order.
Txs == {s \in UNION {[1..n -> Outpoints] : n \in 1..NumOutpoints} : Ascending(s)}

\* Transactions with one input: the arguments of SpecReq.
SingleTxs == {s \in Txs : Len(s) = 1}

\* tx.TxHash(): a collision-free digest of the transaction, here the numeral
\* whose digits (base NumOutpoints + 1) are the outpoints spent.
RECURSIVE TxHash(_)
TxHash(tx) ==
    IF tx = <<>> THEN 0
    ELSE TxHash(SubSeq(tx, 1, Len(tx) - 1)) * (NumOutpoints + 1) + tx[Len(tx)]

\* outpoint.OutpointHash(): a collision-free digest of the outpoint.  It lives in
\* the same type as a tx hash (chainhash.Hash) but never equals one.
OutpointHash(o) == 0 - o

Hashes == {TxHash(tx) : tx \in Txs}
RequestHashes == {TxHash(tx) : tx \in SingleTxs}


MapPut(m, k, v) == [x \in DOMAIN m \cup {k} |-> IF x = k THEN v ELSE m[x]]
MapDelete(m, k) == [x \in DOMAIN m \ {k} |-> m[x]]
Min(S) == CHOOSE x \in S : \A y \in S : x <= y

\* No call is inside the MemPool.
Idle == [pc |-> "idle", tx |-> <<>>, i |-> 0, list |-> <<>>, j |-> 0, result |-> <<>>]

\* The operation called last: its name, the hash it was called with (the hash of
\* the transaction, when it is called with one), whether it has returned, and what
\* it returned: a and b are its first and second boolean result, list its list
\* result; prev and now are AddRequest's requestTime (-1 without one) and now.
Returned(op, hash, a, b, list, prev) ==
    [op |-> op, hash |-> hash, done |-> TRUE, a |-> a, b |-> b, list |-> list,
     prev |-> prev, now |-> clock]

Entered(op, hash) ==
    [op |-> op, hash |-> hash, done |-> FALSE, a |-> FALSE, b |-> FALSE, list |-> <<>>,
     prev |-> 0, now |-> clock]

----------------------------------------------------------------------------
(***************************************************************************)
(* MemPool.AddRequest                                                      *)
(***************************************************************************)
\* Mutant of ShouldRequest: the previous request counts as old from 3 seconds on.
ShouldRequestFromTimeout(requested, requestTime, now) ==
    ~requested \/ now - requestTime >= RequestTimeout

\* mempool.go:46: the tx was never requested, or the previous request is old.
ShouldRequest(requested, requestTime, now) ==
    ~requested \/ now - requestTime > RequestTimeout

\* Mutant of Exists: a hash on record in the request table counts as tracked.
ExistsOrRequested(txid) == txid \in DOMAIN txs \cup DOMAIN requests

\* mempool.go:39: _, exists := memPool.txs[*txid]
Exists(txid) == txid \in DOMAIN txs

AddRequest(txid) ==
    /\ mutex = 0
    /\ call.pc = "idle"
    /\ LET exists == Exists(txid)
           requested == txid \in DOMAIN requests
           requestTime == IF requested THEN requests[txid] ELSE 0 - 1
       IN  IF exists
           THEN /\ last' = Returned("AddRequest", txid, TRUE, FALSE, <<>>, requestTime)
                /\ UNCHANGED requests
           ELSE IF ShouldRequest(requested, requestTime, clock)
           THEN /\ requests' = MapPut(requests, txid, clock)
                /\ last' = Returned("AddRequest", txid, FALSE, TRUE, <<>>, requestTime)
           ELSE /\ last' = Returned("AddRequest", txid, FALSE, FALSE, <<>>, requestTime)
                /\ UNCHANGED requests
    /\ UNCHANGED <<txs, inputs, mutex, call, clock>>
    /\ UNCHANGED nodeVars

(***************************************************************************)
(* MemPool.AddTransaction                                                  *)
(***************************************************************************)
\* mempool.go:98-112: the appends go to the callee's copy of the slice header
\* (the caller's result has length 0 and capacity 0, so every append
\* reallocates): the caller's list is what it was.
AppendIfNotContained(list, add) == list

\* mempool.go:85: list = append(list, &hash) assigns the local variable only.  The
\* slice stored in memPool.inputs was made with length 1 and capacity 1, so the
\* append reallocates and the stored slice keeps its one element.
AppendToLocalList(idx, outpointHash, hash) == idx

\* mempool.go:77-92: one pass over newTx.outPoints.  st = [inputs, result].
RECURSIVE AddInputs(_, _, _)
AddInputs(st, hash, outPoints) ==
    IF outPoints = <<>> THEN st
    ELSE LET outpointHash == OutpointHash(Head(outPoints))
             next ==
                 IF outpointHash \in DOMAIN st.inputs
                 THEN [inputs |-> AppendToLocalList(st.inputs, outpointHash, hash),
                       result |-> AppendIfNotContained(st.result, st.inputs[outpointHash])]
                 ELSE [inputs |-> MapPut(st.inputs, outpointHash, <<hash>>),
                       result |-> st.result]
         IN  AddInputs(next, hash, Tail(outPoints))

\* Mutant of AlreadyInMemPool: the lookup goes to the request table.
AlreadyRequested(hash) == hash \in DOMAIN requests

\* mempool.go:67: _, exists := memPool.txs[hash]
AlreadyInMemPool(hash) == hash \in DOMAIN txs

\* newMemPoolTx: the entry keeps the outpoints of the inputs, in order.  (Its
\* time field is written once and read by nothing.)
NewMemPoolTx(tx) == tx

AddTransactionIn(tx, cap) ==
    /\ mutex = 0
    /\ call.pc = "idle"
    /\ LET hash == TxHash(tx)
       IN  IF AlreadyInMemPool(hash)
           THEN /\ last' = Returned("AddTransaction", hash, FALSE, FALSE, <<>>, 0)
                /\ UNCHANGED <<txs, inputs>>
           ELSE /\ Cardinality(DOMAIN txs) < cap
                /\ LET newTx == NewMemPoolTx(tx)
                       st == AddInputs([inputs |-> inputs, result |-> <<>>], hash, newTx)
                   IN  /\ txs' = MapPut(txs, hash, newTx)
                       /\ inputs' = st.inputs
                       /\ last' = Returned("AddTransaction", hash, TRUE, FALSE, st.result, 0)
    /\ UNCHANGED <<requests, mutex, call, clock>>
    /\ UNCHANGED nodeVars

AddTransaction(tx) == AddTransactionIn(tx, MaxTracked)

(***************************************************************************)
(* MemPool.RemoveTransaction                                               *)
(***************************************************************************)
\* mempool.go:129-134: the loop looks for the OUTPOINT hash among the tx hashes
\* of the list.  A hit removes the element in place: the slice stored in the map
\* keeps its length, the elements behind the hit move up and the last one stays
\* twice.  Without a hit the list is what it was.
PruneInPlace(otherHashes, outpointHash) ==
    LET hits == {i \in DOMAIN otherHashes : otherHashes[i] = outpointHash}
    IN  IF hits = {} THEN otherHashes
        ELSE LET i == Min(hits)
                 n == Len(otherHashes)
             IN  [k \in 1..n |-> IF k < i THEN otherHashes[k]
                                 ELSE IF k < n THEN otherHashes[k + 1]
                                 ELSE otherHashes[n]]

\* Mutant of RemoveOutpoint: the index entry is pruned, never deleted.
RemoveOutpointPruneOnly(idx, outpointHash) ==
    IF outpointHash \in DOMAIN idx
    THEN [idx EXCEPT ![outpointHash] = PruneInPlace(@, outpointHash)]
    ELSE idx

\* mempool.go:125-138: one outpoint of the removed entry.
RemoveOutpoint(idx, outpointHash) ==
    IF outpointHash \in DOMAIN idx
    THEN IF Len(idx[outpointHash]) > 1
         THEN [idx EXCEPT ![outpointHash] = PruneInPlace(@, outpointHash)]
         ELSE MapDelete(idx, outpointHash)
    ELSE idx

\* mempool.go:123-139
RECURSIVE RemoveOutpoints(_, _)
RemoveOutpoints(idx, outPoints) ==
    IF outPoints = <<>> THEN idx
    ELSE RemoveOutpoints(RemoveOutpoint(idx, OutpointHash(Head(outPoints))),
                         Tail(outPoints))

\* Mutant of RemoveTransactionBody: the outpoints leave the index, the entry stays.
RemoveTransactionBodyKeepEntry(t, idx, hash) ==
    IF hash \in DOMAIN t
    THEN [txs |-> t, inputs |-> RemoveOutpoints(idx, t[hash]), exists |-> TRUE]
    ELSE [txs |-> t, inputs |-> idx, exists |-> FALSE]

\* mempool.go:120-144: the body between Lock and Unlock.
RemoveTransactionBody(t, idx, hash) ==
    IF hash \in DOMAIN t
    THEN [txs |-> MapDelete(t, hash), inputs |-> RemoveOutpoints(idx, t[hash]),
          exists |-> TRUE]
    ELSE [txs |-> t, inputs |-> idx, exists |-> FALSE]

\* mempool.go:165-172: the next input, from position `from` on, whose outpoint
\* has a list in the index; 0 when there is none.
NextConflict(idx, tx, from) ==
    LET found == {i \in from..Len(tx) :
                     /\ OutpointHash(tx[i]) \in DOMAIN idx
                     /\ Len(idx[OutpointHash(tx[i])]) > 0}
    IN  IF found = {} THEN 0 ELSE Min(found)

\* mempool.go:167-169: Conflicting is at input i, element j of the list it read
\* from the index: it has appended list[j] to result and calls
\* RemoveTransaction(list[j]), whose first statement is memPool.mutex.Lock().
Evicting(tx, i, list, j, result) ==
    [pc |-> "RemoveTransaction.Lock", tx |-> tx, i |-> i, list |-> list, j |-> j,
     result |-> Append(result, list[j])]

\* mempool.go:165-173: Conflicting goes on after RemoveTransaction(list[j]) has
\* returned: the next element of the list, else the next conflicting input, else
\* the return (pc "return").
ConflictingResume(idx, f) ==
    IF f.j < Len(f.list)
    THEN Evicting(f.tx, f.i, f.list, f.j + 1, f.result)
    ELSE LET i == NextConflict(idx, f.tx, f.i + 1)
         IN  IF i = 0 THEN [f EXCEPT !.pc = "return"]
             ELSE Evicting(f.tx, i, idx[OutpointHash(f.tx[i])], 1, f.result)

\* RemoveTransaction called by a caller of the MemPool (call.pc = "idle"), or
\* by the Conflicting that holds the mutex (call.pc = "RemoveTransaction.Lock").  Either
\* way it starts with memPool.mutex.Lock() (mempool.go:117), which waits until the
\* mutex is free, whoever holds it: sync.Mutex is not reentrant.  Its deferred
\* Unlock leaves the mutex free; Conflicting then goes on to its next eviction or
\* to its return (mempool.go:173).
RemoveTransaction(hash) ==
    /\ mutex = 0
    /\ call.pc \in {"idle", "RemoveTransaction.Lock"}
    /\ call.pc = "RemoveTransaction.Lock" => hash = call.list[call.j]
    /\ LET r == RemoveTransactionBody(txs, inputs, hash)
       IN  /\ txs' = r.txs
           /\ inputs' = r.inputs
           /\ IF call.pc = "idle"
              THEN /\ last' = Returned("RemoveTransaction", hash, r.exists, FALSE, <<>>, 0)
                   /\ UNCHANGED call
              ELSE LET f == ConflictingResume(r.inputs, call)
                   IN  IF f.pc = "return"
                       THEN /\ call' = Idle
                            /\ last' = Returned("Conflicting", TxHash(f.tx), FALSE,
                                                FALSE, f.result, 0)
                       ELSE /\ call' = f
                            /\ UNCHANGED last
    /\ UNCHANGED <<requests, mutex, clock>>
    /\ UNCHANGED nodeVars

(***************************************************************************)
(* MemPool.TransactionExists                                               *)
(***************************************************************************)
TransactionExists(hash) ==
    /\ mutex = 0
    /\ call.pc = "idle"
    /\ last' = Returned("TransactionExists", hash, hash \in DOMAIN txs, FALSE, <<>>, 0)
    /\ UNCHANGED <<txs, inputs, requests, mutex, call, clock>>
    /\ UNCHANGED nodeVars

(***************************************************************************)
(* MemPool.Conflicting                                                     *)
(***************************************************************************)
\* mempool.go:160-173.  Without a conflicting input the call returns its empty
\* result and unlocks.  With one, it keeps the mutex and calls RemoveTransaction.
Conflicting(tx) ==
    /\ mutex = 0
    /\ call.pc = "idle"
    /\ LET i == NextConflict(inputs, tx, 1)
       IN  IF i = 0
           THEN /\ last' = Returned("Conflicting", TxHash(tx), FALSE, FALSE, <<>>, 0)
                /\ UNCHANGED <<mutex, call>>
           ELSE /\ mutex' = 1
                /\ call' = Evicting(tx, i, inputs[OutpointHash(tx[i])], 1, <<>>)
                /\ last' = Entered("Conflicting", TxHash(tx))
    /\ UNCHANGED <<txs, inputs, requests, clock>>
    /\ UNCHANGED nodeVars

(***************************************************************************)
(* The clock.                                                              *)
(***************************************************************************)
Tick ==
    /\ clock < MaxTime
    /\ clock' = clock + 1
    /\ UNCHANGED <<txs, inputs, requests, mutex, call, last>>
    /\ UNCHANGED nodeVars

----------------------------------------------------------------------------
(***************************************************************************)
(* UntrustedNode.  Run, monitorIncoming ("reader"), monitorRequestTimeouts *)
(* ("timer"), sendOutgoing ("writer") and the callers of Stop and          *)
(* BroadcastTx run concurrently.  A step is the code between two points    *)
(* where another goroutine can make a difference: a lock, a channel        *)
(* operation, an unlocked read of a shared field, a blocking call.  A      *)
(* runtime panic is not recovered anywhere: it ends the process.           *)
(***************************************************************************)
Running == panic = "none"

\* The history variable log, with m added to one of its two sequences; it is
\* kept only where the order of the messages is examined (SpecOrder).
Logged(field, m) == IF log.on THEN [log EXCEPT ![field] = Append(@, m)] ELSE log

\* A buffered Go channel is a FIFO queue: a send puts the message behind the
\* messages already buffered.
Enqueue(q, m) == Append(q, m)

\* ch <- m on node.outgoing: panics when the channel is closed, waits while the
\* buffer is full.
Send(m) ==
    IF chanClosed
    THEN /\ panic' = "send on closed channel"
         /\ UNCHANGED <<outgoing, log>>
    ELSE /\ Len(outgoing) < OutgoingCapacity
         /\ outgoing' = Enqueue(outgoing, m)
         /\ log' = Logged("enqueued", m)
         /\ UNCHANGED panic

\* The counters of count, those in names raised by one.
Counted(names) == [k \in DOMAIN count |-> IF k \in names THEN count[k] + 1 ELSE count[k]]

\* Mutant of MustClose: Stop closes the channel whatever the flag says.
CloseAlways(open) == TRUE

\* untrusted_node.go:108  if node.outgoingOpen
MustClose(open) == open

\* untrusted_node.go:103-114 with disconnect (150-160), between Lock and Unlock,
\* called by one of "reader", "timer", "external".  Only Stop, BroadcastTx and Run
\* lock node.mutex, and nothing reads a field in the middle of these lines that
\* could tell one order of them from another.
Stop(by) ==
    /\ nodeMutex = "free"
    /\ stopping' = TRUE
    /\ IF MustClose(outgoingOpen) /\ chanClosed
       THEN /\ panic' = "close of closed channel"
            /\ count' = Counted({"stops"})
            /\ UNCHANGED <<chanClosed, outgoingOpen, conn, transport>>
       ELSE /\ chanClosed' = (chanClosed \/ MustClose(outgoingOpen))
            /\ outgoingOpen' = (outgoingOpen /\ ~MustClose(outgoingOpen))
            /\ count' = Counted({"stops"}
                                \cup (IF MustClose(outgoingOpen) THEN {"closes"} ELSE {})
                                \cup (IF by = "external" THEN {"external"} ELSE {}))
            /\ conn' = "nil"
            /\ transport' = IF conn = "nil" THEN transport ELSE "closed"
            /\ UNCHANGED panic
    /\ UNCHANGED <<outgoing, log, Active, nodeMutex, state, score, handle, msg, cause>>

\* Stop() called from outside the node, at any time: before Run, while it runs,
\* after it has returned.
StopExternal ==
    /\ Running
    /\ count.external < MaxStops
    /\ Stop("external")
    /\ UNCHANGED pc
    /\ UNCHANGED mpVars

\* Mutant of Inactive: BroadcastTx takes the node for active whatever the flag says.
NeverInactive(open) == FALSE

\* untrusted_node.go:121  if !node.outgoingOpen
Inactive(open) == ~open

\* untrusted_node.go:118-123: BroadcastTx locks and looks at the flag.  (calls
\* bounds the number of calls.)
BroadcastTxLockIn(calls) ==
    /\ Running
    /\ pc.broadcast = "idle"
    /\ count.broadcasts < calls
    /\ nodeMutex = "free"
    /\ count' = Counted({"broadcasts"})
    /\ IF Inactive(outgoingOpen)
       THEN /\ cause' = [cause EXCEPT !.broadcast = "Node inactive"]
            /\ UNCHANGED <<nodeMutex, pc>>
       ELSE /\ nodeMutex' = "broadcast"
            /\ pc' = [pc EXCEPT !.broadcast = "send"]
            /\ cause' = [cause EXCEPT !.broadcast = "none"]
    /\ UNCHANGED <<conn, transport, outgoing, log, chanClosed, outgoingOpen, stopping, Active,
                   state, score, handle, msg, panic>>
    /\ UNCHANGED mpVars

BroadcastTxLock == BroadcastTxLockIn(MaxBroadcasts)

\* untrusted_node.go:125-126: the send, with the mutex held, then the deferred Unlock.
BroadcastTxSend ==
    /\ Running
    /\ pc.broadcast = "send"
    /\ Send("tx")
    /\ IF chanClosed
       THEN UNCHANGED <<nodeMutex, pc, cause>>
       ELSE /\ nodeMutex' = "free"
            /\ pc' = [pc EXCEPT !.broadcast = "idle"]
            /\ cause' = [cause EXCEPT !.broadcast = "nil"]
    /\ UNCHANGED <<conn, transport, chanClosed, outgoingOpen, stopping, Active, state,
                   score, handle, msg, count>>
    /\ UNCHANGED mpVars

(***************************************************************************)
(* UntrustedNode.Run                                                       *)
(***************************************************************************)
\* untrusted_node.go:63-64
RunLock ==
    /\ Running
    /\ pc.run = "idle"
    /\ nodeMutex = "free"
    /\ nodeMutex' = "run"
    /\ pc' = [pc EXCEPT !.run = "connect"]
    /\ UNCHANGED <<conn, transport, outgoing, log, chanClosed, outgoingOpen, stopping, Active,
                   state, score, handle, msg, count, cause, panic>>
    /\ UNCHANGED mpVars

\* Mutant of AfterDial: Run goes on to the handshake after a failed dial.
AfterDialGoOn(dialed) == "version"

\* untrusted_node.go:66-72: after a failed connect Run returns the error,
\* otherwise it goes on to queue the version message.
AfterDial(dialed) == IF dialed THEN "version" ELSE "returned"

\* untrusted_node.go:66-72 with connect (136-148): the dial succeeds or fails.
\* (connect starts with disconnect, which finds node.conn nil: only connect sets it.)
RunConnect ==
    /\ Running
    /\ pc.run = "connect"
    /\ \E dialed \in BOOLEAN :
          IF dialed
          THEN /\ conn' = "conn"
               /\ transport' = "open"
               /\ pc' = [pc EXCEPT !.run = AfterDial(dialed)]
               /\ UNCHANGED <<score, Active, nodeMutex, cause, count>>
          ELSE /\ score' = score - 1
               /\ count' = Counted({"dialPenalty"})
               /\ Active' = FALSE
               /\ nodeMutex' = "free"
               /\ cause' = [cause EXCEPT !.run = "dial error"]
               /\ pc' = [pc EXCEPT !.run = AfterDial(dialed)]
               /\ UNCHANGED <<conn, transport>>
    /\ UNCHANGED <<outgoing, log, chanClosed, outgoingOpen, stopping, state, handle, msg, panic>>
    /\ UNCHANGED mpVars

\* untrusted_node.go:74-77: the version message is queued with the mutex held.
RunQueueVersion ==
    /\ Running
    /\ pc.run = "version"
    /\ Send("version")
    /\ IF chanClosed
       THEN UNCHANGED <<nodeMutex, pc>>
       ELSE /\ nodeMutex' = "free"
            /\ pc' = [pc EXCEPT !.run = "start"]
    /\ UNCHANGED <<conn, transport, chanClosed, outgoingOpen, stopping, Active, state,
                   score, handle, msg, count, cause>>
    /\ UNCHANGED mpVars

\* untrusted_node.go:79-95: the three duties are started.
RunStartDuties ==
    /\ Running
    /\ pc.run = "start"
    /\ pc' = [pc EXCEPT !.run = "wait", !.reader = "check", !.timer = "sleep",
                        !.writer = "start"]
    /\ UNCHANGED <<conn, transport, outgoing, log, chanClosed, outgoingOpen, stopping, Active,
                   nodeMutex, state, score, handle, msg, count, cause, panic>>
    /\ UNCHANGED mpVars

\* untrusted_node.go:97-100: wg.Wait() returns when the three duties are done.
RunWait ==
    /\ Running
    /\ pc.run = "wait"
    /\ pc.reader = "done" /\ pc.timer = "done" /\ pc.writer = "done"
    /\ Active' = FALSE
    /\ cause' = [cause EXCEPT !.run = "nil"]
    /\ pc' = [pc EXCEPT !.run = "returned"]
    /\ UNCHANGED <<conn, transport, outgoing, log, chanClosed, outgoingOpen, stopping,
                   nodeMutex, state, score, handle, msg, count, panic>>
    /\ UNCHANGED mpVars

(***************************************************************************)
(* UntrustedNode.monitorIncoming and check                                 *)
(***************************************************************************)
readerFrame == <<conn, transport, chanClosed, outgoingOpen, stopping, Active, nodeMutex>>

\* Mutant of VersionPending: check never waits for the peer's version.
VersionNeverPending(st) == FALSE

\* untrusted_node.go:200  if !node.state.VersionReceived
VersionPending(st) == ~st.VersionReceived

\* Mutant of HandshakeDue: check takes the handshake for done.
HandshakeNeverDue(st) == FALSE

\* untrusted_node.go:204  if !node.state.HandshakeComplete
HandshakeDue(st) == ~st.HandshakeComplete

\* untrusted_node.go:168 and 200-209: check starts.  Without the peer's version it
\* returns; with the handshake still to do it builds the header request, which
\* can fail (then monitorIncoming stops the node).
MonitorIncomingCheck ==
    /\ Running
    /\ pc.reader = "check"
    /\ IF VersionPending(state)
       THEN pc' = [pc EXCEPT !.reader = "load"] /\ UNCHANGED cause
       ELSE IF HandshakeDue(state)
       THEN \E built \in BOOLEAN :
               IF built
               THEN pc' = [pc EXCEPT !.reader = "headers"] /\ UNCHANGED cause
               ELSE /\ pc' = [pc EXCEPT !.reader = "stop"]
                    /\ cause' = [cause EXCEPT !.reader = "check"]
       ELSE pc' = [pc EXCEPT !.reader = "verified"] /\ UNCHANGED cause
    /\ UNCHANGED <<readerFrame, outgoing, log, state, score, handle, msg, count, panic>>
    /\ UNCHANGED mpVars

\* untrusted_node.go:210-213
CheckRequestHeaders ==
    /\ Running
    /\ pc.reader = "headers"
    /\ Send("getheaders")
    /\ IF chanClosed
       THEN UNCHANGED <<state, pc, count>>
       ELSE /\ state' = [state EXCEPT !.HeadersRequested = TRUE,
                                      !.HandshakeComplete = TRUE]
            /\ count' = Counted({"getheaders"})
            /\ pc' = [pc EXCEPT !.reader = "verified"]
    /\ UNCHANGED <<readerFrame, score, handle, msg, cause>>
    /\ UNCHANGED mpVars

\* Mutant of ScoreDue: the score is raised at every check of a verified peer.
ScoreAlwaysDue(st) == TRUE

\* untrusted_node.go:221  if !node.state.ScoreUpdated
ScoreDue(st) == ~st.ScoreUpdated

\* untrusted_node.go:217-224
CheckVerified ==
    /\ Running
    /\ pc.reader = "verified"
    /\ IF ~state.Verified
       THEN /\ pc' = [pc EXCEPT !.reader = "load"]
            /\ UNCHANGED <<state, score, count>>
       ELSE /\ pc' = [pc EXCEPT !.reader = "addresses"]
            /\ IF ScoreDue(state)
               THEN /\ score' = score + 5
                    /\ state' = [state EXCEPT !.ScoreUpdated = TRUE]
                    /\ count' = Counted({"scoreUp"})
               ELSE UNCHANGED <<state, score, count>>
    /\ UNCHANGED <<readerFrame, outgoing, log, handle, msg, cause, panic>>
    /\ UNCHANGED mpVars

\* untrusted_node.go:226-230
CheckRequestAddresses ==
    /\ Running
    /\ pc.reader = "addresses"
    /\ IF ~state.AddressesRequested
       THEN /\ Send("getaddr")
            /\ IF chanClosed
               THEN UNCHANGED <<state, pc, count>>
               ELSE /\ state' = [state EXCEPT !.AddressesRequested = TRUE]
                    /\ count' = Counted({"getaddr"})
                    /\ pc' = [pc EXCEPT !.reader = "mempool"]
       ELSE /\ pc' = [pc EXCEPT !.reader = "mempool"]
            /\ UNCHANGED <<state, count, outgoing, log, panic>>
    /\ UNCHANGED <<readerFrame, score, handle, msg, cause>>
    /\ UNCHANGED mpVars

\* untrusted_node.go:232-238
CheckRequestMemPool ==
    /\ Running
    /\ pc.reader = "mempool"
    /\ IF ~state.MemPoolRequested
       THEN /\ Send("mempool")
            /\ IF chanClosed
               THEN UNCHANGED <<state, pc, count>>
               ELSE /\ state' = [state EXCEPT !.MemPoolRequested = TRUE]
                    /\ count' = Counted({"mempool"})
                    /\ pc' = [pc EXCEPT !.reader = "tracker"]
       ELSE /\ pc' = [pc EXCEPT !.reader = "tracker"]
            /\ UNCHANGED <<state, count, outgoing, log, panic>>
    /\ UNCHANGED <<readerFrame, score, handle, msg, cause>>
    /\ UNCHANGED mpVars

\* untrusted_node.go:240-249: the tx tracker fails or succeeds; it has nothing to
\* request from this peer, so the loop over its responses sends nothing.  check
\* has then returned nil with VersionReceived and Verified true ("checked").
CheckTxTracker ==
    /\ Running
    /\ pc.reader = "tracker"
    /\ \E failed \in BOOLEAN :
          IF failed
          THEN /\ pc' = [pc EXCEPT !.reader = "stop"]
               /\ cause' = [cause EXCEPT !.reader = "check"]
               /\ UNCHANGED count
          ELSE /\ pc' = [pc EXCEPT !.reader = "load"]
               /\ count' = Counted({"checked"})
               /\ UNCHANGED cause
    /\ UNCHANGED <<readerFrame, outgoing, log, panic, state, score, handle, msg>>
    /\ UNCHANGED mpVars

\* An unlocked read of node.conn.  Stop writes the field under the mutex, the
\* duties read it without: after Stop the read yields nil, or still the
\* connection, which Stop has closed.
LoadConn == IF conn = "nil" /\ transport = "closed" THEN {"nil", "conn"} ELSE {conn}

\* What the peer can send.
PeerMessages == {"version", "headers", "bad"}

\* untrusted_node.go:175: node.conn is evaluated for the call of wire.ReadMessage.
MonitorIncomingLoadConn ==
    /\ Running
    /\ pc.reader = "load"
    /\ \E c \in LoadConn : handle' = [handle EXCEPT !.reader = c]
    /\ pc' = [pc EXCEPT !.reader = "read"]
    /\ UNCHANGED <<readerFrame, outgoing, log, state, score, msg, count, cause, panic>>
    /\ UNCHANGED mpVars

\* Mutant of ReadFailurePenalty: a failed read costs the peer a point, as a failed
\* dispatch does; a clean end of stream costs nothing.
ReadFailurePenaltyButEOF(err) == IF err = "EOF" THEN 0 ELSE 1

\* untrusted_node.go:176-187: neither the io.EOF branch nor the branch of the
\* other read errors calls UpdateScore.
ReadFailurePenalty(err) == 0

\* untrusted_node.go:175-187: the blocking read.  On a nil connection it panics;
\* on the connection Stop has closed it fails; on an open one the peer sends a
\* message, or closes the stream (io.EOF), or the transport fails.  After a
\* failure monitorIncoming is about to call Stop.
MonitorIncomingRead ==
    /\ Running
    /\ pc.reader = "read"
    /\ IF handle.reader = "nil"
       THEN /\ panic' = "nil pointer dereference"
            /\ UNCHANGED <<pc, msg, count, cause, score>>
       ELSE /\ UNCHANGED panic
            /\ \E r \in IF transport = "closed" THEN {"read error"}
                        ELSE {"EOF", "read error"}
                             \cup (IF count.reads < MaxReads THEN PeerMessages ELSE {}) :
                  IF r \in PeerMessages
                  THEN /\ msg' = r
                       /\ count' = Counted({"reads"})
                       /\ pc' = [pc EXCEPT !.reader = "handle"]
                       /\ UNCHANGED <<cause, score>>
                  ELSE /\ pc' = [pc EXCEPT !.reader = "stop"]
                       /\ cause' = [cause EXCEPT !.reader = r]
                       /\ score' = score - ReadFailurePenalty(r)
                       /\ count' = [count EXCEPT !.readerPenalty = @ + ReadFailurePenalty(r)]
                       /\ UNCHANGED msg
    /\ UNCHANGED <<readerFrame, outgoing, log, state, handle>>
    /\ UNCHANGED mpVars

\* The reply of the command handler of a message: the version handler answers
\* with a verack, the other handlers with nothing.
Replies(m) == IF m = "version" THEN <<"verack">> ELSE <<>>

\* Mutant of DispatchFailurePenalty: a failed dispatch costs the peer nothing.
DispatchFailureFree(m) == 0

\* untrusted_node.go:190: node.peers.UpdateScore(ctx, node.address, -1)
DispatchFailurePenalty(m) == 1

\* untrusted_node.go:189-194 with the command handlers: the version handler sets
\* VersionReceived, the headers handler sets Verified, the replies of a handler
\* are sent on node.outgoing; when the handler fails the peer loses a point
\* (line 190) and monitorIncoming is about to call Stop.
MonitorIncomingHandle ==
    /\ Running
    /\ pc.reader = "handle"
    /\ IF msg = "bad"
       THEN /\ pc' = [pc EXCEPT !.reader = "stop"]
            /\ cause' = [cause EXCEPT !.reader = "handle"]
            /\ score' = score - DispatchFailurePenalty(msg)
            /\ count' = [count EXCEPT !.readerPenalty = @ + DispatchFailurePenalty(msg)]
            /\ msg' = "none"
            /\ UNCHANGED <<state, outgoing, log, panic>>
       ELSE /\ state' = [state EXCEPT
                           !.VersionReceived = @ \/ msg = "version",
                           !.Verified = @ \/ msg = "headers"]
            /\ IF Replies(msg) # <<>>
               THEN Send(Replies(msg)[1])
               ELSE UNCHANGED <<outgoing, log, panic>>
            /\ IF Replies(msg) # <<>> /\ chanClosed
               THEN UNCHANGED <<pc, msg>>
               ELSE pc' = [pc EXCEPT !.reader = "check"] /\ msg' = "none"
            /\ UNCHANGED <<cause, score, count>>
    /\ UNCHANGED <<readerFrame, handle>>
    /\ UNCHANGED mpVars

\* untrusted_node.go:170, 179, 185, 192: node.Stop(), then break.
MonitorIncomingStop ==
    /\ Running
    /\ pc.reader = "stop"
    /\ Stop("reader")
    /\ pc' = [pc EXCEPT !.reader = "done"]
    /\ UNCHANGED mpVars

(***************************************************************************)
(* UntrustedNode.monitorRequestTimeouts                                    *)
(***************************************************************************)
\* untrusted_node.go:255-266: sleepUntilStop returns (after 10 seconds at the
\* latest), and CheckTimeouts reports a timeout or none.  A timeout costs the
\* peer a point and the duty is about to call Stop; without one the loop ends
\* when node.stopping is set and goes on otherwise.
MonitorRequestTimeoutsCheck ==
    /\ Running
    /\ pc.timer = "sleep"
    /\ \E timedOut \in BOOLEAN :
          IF timedOut
          THEN /\ score' = score - 1
               /\ count' = Counted({"timerPenalty"})
               /\ pc' = [pc EXCEPT !.timer = "stop"]
          ELSE /\ pc' = [pc EXCEPT !.timer = IF stopping THEN "done" ELSE "sleep"]
               /\ UNCHANGED <<score, count>>
    /\ UNCHANGED <<readerFrame, outgoing, log, state, handle, msg, cause, panic>>
    /\ UNCHANGED mpVars

\* untrusted_node.go:260-261
MonitorRequestTimeoutsStop ==
    /\ Running
    /\ pc.timer = "stop"
    /\ Stop("timer")
    /\ pc' = [pc EXCEPT !.timer = "done"]
    /\ UNCHANGED mpVars

(***************************************************************************)
(* sendOutgoing                                                            *)
(***************************************************************************)
\* untrusted_node.go:94: node.conn is evaluated when the goroutine starts.
SendOutgoingStart ==
    /\ Running
    /\ pc.writer = "start"
    /\ \E c \in LoadConn : handle' = [handle EXCEPT !.writer = c]
    /\ pc' = [pc EXCEPT !.writer = "receive"]
    /\ UNCHANGED <<readerFrame, outgoing, log, state, score, msg, count, cause, panic>>
    /\ UNCHANGED mpVars

\* sendOutgoing drains the channel to the transport until the channel is closed:
\* it takes the oldest message and writes it (a write on a nil connection
\* panics), and it returns when the channel is closed and empty.
SendOutgoingNext ==
    /\ Running
    /\ pc.writer = "receive"
    /\ IF outgoing # <<>>
       THEN /\ outgoing' = Tail(outgoing)
            /\ log' = IF handle.writer # "nil" /\ transport = "open"
                      THEN Logged("written", Head(outgoing)) ELSE log
            /\ panic' = IF handle.writer = "nil" THEN "nil pointer dereference" ELSE panic
            /\ UNCHANGED pc
       ELSE /\ chanClosed
            /\ pc' = [pc EXCEPT !.writer = "done"]
            /\ UNCHANGED <<outgoing, log, panic>>
    /\ UNCHANGED <<conn, transport, chanClosed, outgoingOpen, stopping, Active, nodeMutex,
                   state, score, handle, msg, count, cause>>
    /\ UNCHANGED mpVars

----------------------------------------------------------------------------
InitMemPool ==
    /\ txs = <<>>
    /\ inputs = <<>>
    /\ requests = <<>>
    /\ mutex = 0
    /\ call = Idle
    /\ clock = 0
    /\ last = Entered("none", 0)

\* untrusted_node.go:40-58  NewUntrustedNode
InitNode ==
    /\ conn = "nil"
    /\ transport = "none"
    /\ outgoing = <<>>
    /\ chanClosed = FALSE
    /\ outgoingOpen = TRUE
    /\ stopping = FALSE
    /\ Active = TRUE
    /\ nodeMutex = "free"
    /\ state = [VersionReceived |-> FALSE, HandshakeComplete |-> FALSE,
                HeadersRequested |-> FALSE, Verified |-> FALSE, ScoreUpdated |-> FALSE,
                AddressesRequested |-> FALSE, MemPoolRequested |-> FALSE]
    /\ score = 0
    /\ pc = [run |-> "idle", reader |-> "off", timer |-> "off", writer |-> "off",
             broadcast |-> "idle"]
    /\ handle = [reader |-> "nil", writer |-> "nil"]
    /\ msg = "none"
    /\ count = [reads |-> 0, external |-> 0, broadcasts |-> 0, stops |-> 0, closes |-> 0,
                scoreUp |-> 0, getheaders |-> 0, getaddr |-> 0, mempool |-> 0,
                checked |-> 0, dialPenalty |-> 0, readerPenalty |-> 0,
                timerPenalty |-> 0]
    /\ cause = [run |-> "none", reader |-> "none", broadcast |-> "none"]
    /\ panic = "none"

\* No history is kept.
NoLog == [on |-> FALSE, enqueued |-> <<>>, written |-> <<>>]

Init == InitMemPool /\ InitNode /\ log = NoLog

\* The MemPool and its callers, at one instant of the clock.  Every operation
\* starts by locking memPool.mutex, so at most one call is inside the MemPool: the
\* others wait for mutex = 0, and who calls makes no difference to the state.
Next ==
    \/ \E tx \in Txs : AddTransaction(tx)
    \/ \E hash \in Hashes : RemoveTransaction(hash)
    \/ \E hash \in Hashes : TransactionExists(hash)
    \/ \E tx \in Txs : Conflicting(tx)
    \/ \E txid \in RequestHashes : AddRequest(txid)

Spec == Init /\ [][Next]_vars

\* Transactions are told apart by more than the set of outpoints they spend:
\* with each transaction of Txs, the one that spends the same outpoints in the
\* opposite order.
RECURSIVE Reverse(_)
Reverse(s) == IF s = <<>> THEN <<>> ELSE Append(Reverse(Tail(s)), Head(s))

TwinTxs == Txs \cup {Reverse(tx) : tx \in Txs}

\* Double spends: transactions are added, some of them spending the same
\* outpoints, and asked about.
NextTwin ==
    \/ \E tx \in TwinTxs : AddTransaction(tx)
    \/ \E tx \in TwinTxs : Conflicting(tx)

SpecTwin == Init /\ [][NextTwin]_vars

FairSpecTwin == SpecTwin /\ WF_vars(NextTwin)

\* The request throttle: AddRequest while the clock advances and the requested
\* transactions come and go.
NextReq ==
    \/ \E txid \in RequestHashes : AddRequest(txid)
    \/ \E tx \in SingleTxs : AddTransaction(tx)
    \/ \E hash \in RequestHashes : RemoveTransaction(hash)
    \/ Tick

SpecReq == Init /\ [][NextReq]_vars

\* One node: Run, its duties, and the callers of Stop and BroadcastTx.
RunStep == RunLock \/ RunConnect \/ RunQueueVersion \/ RunStartDuties \/ RunWait

ReaderStep ==
    \/ MonitorIncomingCheck
    \/ CheckRequestHeaders
    \/ CheckVerified
    \/ CheckRequestAddresses
    \/ CheckRequestMemPool
    \/ CheckTxTracker
    \/ MonitorIncomingLoadConn
    \/ MonitorIncomingRead
    \/ MonitorIncomingHandle
    \/ MonitorIncomingStop

TimerStep == MonitorRequestTimeoutsCheck \/ MonitorRequestTimeoutsStop

WriterStep == SendOutgoingStart \/ SendOutgoingNext

CallerStep == StopExternal \/ BroadcastTxLock \/ BroadcastTxSend

NextNode == RunStep \/ ReaderStep \/ TimerStep \/ WriterStep \/ CallerStep

SpecNode == Init /\ [][NextNode]_vars

\* The same node, with the history of the messages enqueued and written.
InitOrder == InitMemPool /\ InitNode /\ log = [NoLog EXCEPT !.on = TRUE]

\* The producers and the consumer of node.outgoing; Stop is called by the
\* duties only.
NextOrder ==
    \/ RunStep
    \/ ReaderStep
    \/ TimerStep
    \/ WriterStep
    \/ BroadcastTxLock
    \/ BroadcastTxSend

SpecOrder == InitOrder /\ [][NextOrder]_vars

\* One call more than the buffer of node.outgoing holds.
MaxFill == OutgoingCapacity + 1

\* A node that NewUntrustedNode has built and that is not running (Run has not
\* been called yet): its callers broadcast transactions and stop it.
NextFull ==
    \/ BroadcastTxLockIn(MaxFill)
    \/ BroadcastTxSend
    \/ StopExternal

SpecFull == Init /\ [][NextFull]_vars

\* A caller that can take its step takes it, and a Stop call is pending.
FairSpecFull ==
    /\ SpecFull
    /\ WF_vars(BroadcastTxLockIn(MaxFill) \/ BroadcastTxSend)
    /\ WF_vars(StopExternal)

\* The scheduler runs every goroutine that can take a step: Run and its three
\* duties.  Nothing obliges a caller to call Stop or BroadcastTx.
FairSpecNode ==
    /\ SpecNode
    /\ WF_vars(RunStep)
    /\ WF_vars(ReaderStep)
    /\ WF_vars(TimerStep)
    /\ WF_vars(WriterStep)

\* A caller that can take a step takes one: the scheduler runs what is runnable.
FairSpec == Spec /\ WF_vars(Next)

----------------------------------------------------------------------------
(***************************************************************************)
(* Claims about the MemPool.                                               *)
(***************************************************************************)
\* The transaction with this hash.
TxOf(hash) == CHOOSE tx \in Txs : TxHash(tx) = hash

\* The tracked transactions that spend outpoint o.
Spenders(o) == {h \in DOMAIN txs : o \in Range(txs[h])}

\* C1: once Conflicting(B) has found a tracked transaction A that spends an
\* outpoint of B, the call returns a list that contains A's hash, and none of the
\* hashes it returns is tracked any more.
C1_ConflictingReturnsEvicted ==
    (call.pc = "RemoveTransaction.Lock")
        ~> (/\ call.pc = "idle"
            /\ last.op = "Conflicting"
            /\ last.done
            /\ last.list # <<>>
            /\ \A h \in Range(last.list) : h \notin DOMAIN txs)

\* C2: AddTransaction of a hash that is not tracked returns added = true and
\* tracks it; AddTransaction of a tracked hash returns (empty, false) and changes
\* neither the entries, nor the input index, nor the request table.
C2_AddTransactionOnce ==
    [][(last' # last /\ last'.op = "AddTransaction") =>
          LET h == last'.hash
          IN  /\ h \notin DOMAIN txs => last'.a /\ h \in DOMAIN txs'
              /\ h \in DOMAIN txs =>
                    /\ ~last'.a
                    /\ last'.list = <<>>
                    /\ txs' = txs
                    /\ inputs' = inputs
                    /\ requests' = requests]_vars

\* C2 witness: a repeated AddTransaction of a tracked hash has returned false,
\* with a request on record.
C2_Witness ==
    /\ last.op = "AddTransaction"
    /\ ~last.a
    /\ last.hash \in DOMAIN txs
    /\ requests # <<>>

\* C3 as claimed: an AddRequest of an untracked hash whose last request was
\* granted at time prev is refused less than 3 seconds after prev, and granted
\* (recording the new time) 3 seconds or more after prev.
C3_GrantedFromThreeSeconds ==
    (last.op = "AddRequest" /\ ~last.a /\ last.prev >= 0) =>
        /\ last.now - last.prev < 3 => ~last.b
        /\ last.now - last.prev >= 3 => last.b /\ requests[last.hash] = last.now

\* C3 as amended: the request is refused up to and including 3 seconds after the
\* last grant, leaving the recorded time, and granted, recording the new time,
\* when more than 3 seconds have passed.
C3_GrantedAfterThreeSeconds ==
    (last.op = "AddRequest" /\ ~last.a /\ last.prev >= 0) =>
        /\ last.now - last.prev <= 3 => ~last.b /\ requests[last.hash] = last.prev
        /\ last.now - last.prev > 3 => last.b /\ requests[last.hash] = last.now

\* C3 witness: a request is granted again, more than 3 seconds after the last grant.
C3_Witness ==
    /\ last.op = "AddRequest"
    /\ ~last.a
    /\ last.b
    /\ last.prev >= 0
    /\ last.now - last.prev > 3

\* C4: after RemoveTransaction has removed a tracked transaction, each outpoint it
\* spent that other tracked transactions spend as well still has its index entry,
\* which lists every one of them and not the removed hash; an outpoint nobody
\* else spends has no index entry.
C4_RemoveKeepsCoSpenders ==
    (last.op = "RemoveTransaction" /\ last.a) =>
        \A o \in Range(TxOf(last.hash)) :
            IF Spenders(o) # {}
            THEN /\ OutpointHash(o) \in DOMAIN inputs
                 /\ Spenders(o) \subseteq Range(inputs[OutpointHash(o)])
                 /\ last.hash \notin Range(inputs[OutpointHash(o)])
            ELSE OutpointHash(o) \notin DOMAIN inputs

\* C5: every hash listed in the input index under an outpoint is a tracked entry
\* that spends this outpoint.
C5_IndexRefersToEntries ==
    \A oh \in DOMAIN inputs :
        \A h \in Range(inputs[oh]) :
            /\ h \in DOMAIN txs
            /\ \E o \in Range(txs[h]) : OutpointHash(o) = oh

\* C5 witness: a transaction has been removed while another one, which shares an
\* outpoint with it, stays tracked and indexed.
C5_Witness ==
    /\ last.op = "RemoveTransaction"
    /\ last.a
    /\ \E h \in DOMAIN txs : Range(txs[h]) \cap Range(TxOf(last.hash)) # {}
    /\ inputs # <<>>

\* C12: when AddTransaction has added a transaction, the list it returns holds,
\* once each, exactly the hashes of the other tracked transactions that spend
\* an outpoint this transaction spends.
C12_AddTransactionReturnsConflicts ==
    (last.op = "AddTransaction" /\ last.a) =>
        LET conflicts == {h \in DOMAIN txs \ {last.hash} :
                             Range(txs[h]) \cap Range(txs[last.hash]) # {}}
        IN  /\ Range(last.list) = conflicts
            /\ Len(last.list) = Cardinality(conflicts)

\* C14: AddRequest(h) returns alreadyHave = true exactly when h is tracked, and
\* then shouldRequest = false with the request table as it was; the request
\* table changes only in a call that returns shouldRequest = true, and the
\* entries and the input index never change.
C14_AddRequestFrame ==
    [][(last' # last /\ last'.op = "AddRequest") =>
          LET h == last'.hash
          IN  /\ last'.a <=> h \in DOMAIN txs
              /\ last'.a => ~last'.b /\ requests' = requests
              /\ ~last'.b => requests' = requests
              /\ last'.b => requests' = MapPut(requests, h, clock)
              /\ txs' = txs
              /\ inputs' = inputs]_vars

\* C14 witness: AddRequest of a tracked hash has returned (true, false) although
\* the request on record for it is more than 3 seconds old.
C14_Witness ==
    /\ last.op = "AddRequest"
    /\ last.a /\ ~last.b
    /\ last.hash \in DOMAIN txs
    /\ last.prev >= 0
    /\ last.now - last.prev > RequestTimeout
    /\ requests[last.hash] = last.prev

\* C15: when AddTransaction has added a transaction, the input index lists its
\* hash under every outpoint it spends, also under an outpoint that another
\* tracked transaction spends.
C15_AddedIsIndexed ==
    (last.op = "AddTransaction" /\ last.a) =>
        \A o \in Range(txs[last.hash]) :
            /\ OutpointHash(o) \in DOMAIN inputs
            /\ last.hash \in Range(inputs[OutpointHash(o)])

\* C16: when two or more tracked transactions spend an outpoint that the
\* untracked transaction B spends too, Conflicting(B) returns the hashes of all
\* of them, none of them is tracked afterwards, and B is neither tracked nor
\* returned.
C16_ConflictingEvictsAll ==
    \A b \in TwinTxs : \A o \in Outpoints : \A h1, h2 \in {TxHash(tx) : tx \in TwinTxs} :
        (/\ call.pc = "RemoveTransaction.Lock"
         /\ call.tx = b
         /\ o \in Range(b)
         /\ h1 # h2
         /\ {h1, h2} \subseteq Spenders(o))
            ~> (/\ call.pc = "idle"
                /\ last.op = "Conflicting"
                /\ last.hash = TxHash(b)
                /\ last.done
                /\ {h1, h2} \subseteq Range(last.list)
                /\ TxHash(b) \notin Range(last.list)
                /\ (Range(last.list) \cup {TxHash(b)}) \cap DOMAIN txs = {})

\* C17: a MemPool operation that holds the lock returns and leaves the lock free.
C17_OperationsReturn == (mutex = 1) ~> (mutex = 0 /\ call.pc = "idle")

\* C21: RemoveTransaction(h) returns existed = true exactly when h is tracked at
\* the call; afterwards h is not tracked, every other entry is tracked as
\* before and the request table is as before; for an absent h the entries, the
\* input index and the request table are all as before.
C21_RemoveTransactionFrame ==
    [][(last' # last /\ last'.op = "RemoveTransaction") =>
          LET h == last'.hash
          IN  /\ last'.a <=> h \in DOMAIN txs
              /\ DOMAIN txs' = DOMAIN txs \ {h}
              /\ \A g \in DOMAIN txs' : txs'[g] = txs[g]
              /\ requests' = requests
              /\ h \notin DOMAIN txs => txs' = txs /\ inputs' = inputs]_vars

\* C21 witness: a tracked transaction has been removed while another one is
\* tracked and a request is on record for the removed hash.
C21_Witness ==
    /\ last.op = "RemoveTransaction"
    /\ last.a
    /\ last.hash \notin DOMAIN txs
    /\ DOMAIN txs # {}
    /\ last.hash \in DOMAIN requests

----------------------------------------------------------------------------
(***************************************************************************)
(* The node.                                                               *)
(***************************************************************************)

\* C6: Stop may be called any number of times, by the read duty, the timeout
\* duty and an external caller: no call panics at close, the channel is closed
\* exactly once (as soon as one Stop has run), and outgoingOpen is true exactly
\* as long as the channel is not closed.
C6_StopClosesOnce ==
    /\ panic # "close of closed channel"
    /\ count.closes <= 1
    /\ chanClosed <=> count.closes = 1
    /\ outgoingOpen <=> ~chanClosed
    /\ count.stops > 0 => count.closes = 1

\* The read duty, the timeout duty and an external caller have all called Stop.
C6_Witness ==
    /\ count.stops >= 3
    /\ count.external >= 1
    /\ pc.reader = "done"
    /\ pc.timer = "done"
    /\ count.closes = 1

\* C7: a BroadcastTx call that starts after a Stop call has returned returns
\* "Node inactive" in that step: nothing is enqueued, the call does not wait on
\* the channel and nothing panics; and a BroadcastTx call that returns nil has
\* appended exactly its transaction to a channel that is open.
C7_BroadcastAfterStop ==
    [][ /\ (count'.broadcasts = count.broadcasts + 1 /\ count.stops > 0)
            => /\ cause'.broadcast = "Node inactive"
               /\ outgoing' = outgoing
               /\ pc'.broadcast = "idle"
               /\ nodeMutex' = nodeMutex
               /\ panic' = "none"
        /\ (pc.broadcast = "send" /\ pc'.broadcast = "idle")
            => /\ cause'.broadcast = "nil"
               /\ outgoing' = Append(outgoing, "tx")
               /\ ~chanClosed /\ ~chanClosed'
               /\ panic' = "none"
        /\ (pc.broadcast = "send") => panic' = panic
      ]_vars

\* A BroadcastTx call made after Stop has returned "Node inactive".
C7_Witness ==
    /\ count.stops > 0
    /\ count.broadcasts > 0
    /\ cause.broadcast = "Node inactive"
    /\ pc.broadcast = "idle"
    /\ panic = "none"

\* C8: once Stop has been called on a running node (Run has released the mutex
\* and starts or has started the duties), the duties exit and Run returns with
\* Active = false.
C8_StopEndsRun ==
    (stopping /\ pc.run \in {"start", "wait"})
        ~> (pc.run = "returned" /\ ~Active
            /\ pc.reader = "done" /\ pc.timer = "done" /\ pc.writer = "done")

\* C9: the score +5, the get-address request and the mempool request each happen
\* at most once, none before Verified (and VersionReceived) is set, and each has
\* happened once when a check has completed with both set, however many checks
\* follow; the score is then the +5 minus the penalties.
C9_PostVerificationOnce ==
    /\ count.scoreUp <= 1 /\ count.getaddr <= 1 /\ count.mempool <= 1
    /\ count.scoreUp + count.getaddr + count.mempool > 0
        => state.Verified /\ state.VersionReceived
    /\ count.checked >= 1
        => count.scoreUp = 1 /\ count.getaddr = 1 /\ count.mempool = 1
    /\ score = 5 * count.scoreUp
               - (count.dialPenalty + count.readerPenalty + count.timerPenalty)

\* check has completed twice with the peer verified.
C9_Witness ==
    /\ count.checked >= 2
    /\ count.scoreUp = 1 /\ count.getaddr = 1 /\ count.mempool = 1

\* C10 as stated: a dial failure and a read failure each cost the peer a point
\* and end the duty's loop, a clean end of stream ends it without a penalty.
C10_FatalPenalized ==
    [][ /\ (pc.run = "connect" /\ pc'.run = "returned")
            => score' = score - 1 /\ ~Active'
        /\ (pc.reader = "read" /\ pc'.reader = "stop")
            => score' = score - (IF cause'.reader = "EOF" THEN 0 ELSE 1)
      ]_vars

\* C10 amended: a dial failure costs the peer one point, and Run returns the
\* error with Active = false, the mutex free and no duty started; a read failure
\* and an end of stream cost nothing, and after either the read duty calls Stop
\* and leaves its loop.
C10_FatalEndsReadLoop ==
    [][ /\ (pc.run = "connect" /\ pc'.run = "returned")
            => /\ score' = score - 1
               /\ ~Active'
               /\ cause'.run = "dial error"
               /\ nodeMutex' = "free"
               /\ pc'.reader = "off" /\ pc'.timer = "off" /\ pc'.writer = "off"
        /\ (pc.reader = "read" /\ pc'.reader = "stop")
            => /\ cause'.reader \in {"EOF", "read error"}
               /\ score' = score
        /\ (pc.reader = "stop" /\ pc'.reader # "stop")
            => /\ pc'.reader = "done"
               /\ stopping'
               /\ count'.stops = count.stops + 1
               /\ score' = score
      ]_vars

\* A read has failed, the read duty has called Stop and left its loop, and the
\* peer has lost no point.
C10_Witness ==
    /\ cause.reader = "read error"
    /\ pc.reader = "done"
    /\ stopping
    /\ count.readerPenalty = 0 /\ count.timerPenalty = 0
    /\ score >= 0

\* s is an initial part of t.
IsPrefix(s, t) == Len(s) <= Len(t) /\ SubSeq(t, 1, Len(s)) = s

\* C11: the messages written to the transport are, in order, the first of the
\* messages enqueued on node.outgoing, whoever enqueued them, and the first
\* message written is the version message queued by Run.
C11_WrittenInOrder ==
    /\ IsPrefix(log.written, log.enqueued)
    /\ log.written # <<>> => log.written[1] = "version"

\* C13: after a failed dial Run has returned the dial error: the peer has lost
\* exactly one point, Active is false, Run does not hold the mutex, none of the
\* three duties has been started, there is no connection, and Run has enqueued
\* nothing, not even the version message.
C13_DialFailureIsTerminal ==
    cause.run = "dial error" =>
        /\ pc.run = "returned"
        /\ ~Active
        /\ count.dialPenalty = 1
        /\ score = 0 - 1
        /\ nodeMutex # "run"
        /\ pc.reader = "off" /\ pc.timer = "off" /\ pc.writer = "off"
        /\ conn = "nil" /\ transport = "none"
        /\ "version" \notin Range(outgoing)
        /\ panic = "none"

\* The dial has failed; afterwards callers have used the node (a Stop or a
\* BroadcastTx has got the mutex).
C13_Witness ==
    /\ cause.run = "dial error"
    /\ pc.run = "returned"
    /\ count.stops + count.broadcasts > 0

\* C18: no message is sent on node.outgoing after Stop has closed it.
C18_NoSendAfterClose == panic # "send on closed channel"

\* C19: a check that finds VersionReceived false returns without enqueuing
\* anything and without changing the state or the score; the header request is
\* enqueued at most once, by a check that finds VersionReceived true and
\* HandshakeComplete false, which sets HeadersRequested and HandshakeComplete
\* with the send, whether or not the peer is verified; when the header request
\* cannot be built nothing is enqueued, the flags stay as they are and the read
\* duty goes on to call Stop and leaves its loop.
C19_HeaderRequestOnce ==
    [][ /\ (pc.reader = "check" /\ pc'.reader # "check" /\ ~state.VersionReceived)
            => /\ pc'.reader = "load"
               /\ outgoing' = outgoing
               /\ state' = state
               /\ score' = score
        /\ count'.getheaders <= 1
        /\ state'.HandshakeComplete <=> count'.getheaders = 1
        /\ state'.HandshakeComplete <=> state'.HeadersRequested
        /\ count'.getheaders # count.getheaders
            => /\ state.VersionReceived /\ ~state.HandshakeComplete
               /\ outgoing' = Append(outgoing, "getheaders")
               /\ state' = [state EXCEPT !.HeadersRequested = TRUE,
                                         !.HandshakeComplete = TRUE]
        /\ (pc.reader = "check" /\ pc'.reader = "stop")
            => /\ state.VersionReceived /\ ~state.HandshakeComplete
               /\ cause'.reader = "check"
               /\ outgoing' = outgoing
               /\ state' = state
        /\ (pc.reader = "stop" /\ pc'.reader # "stop")
            => pc'.reader = "done" /\ stopping'
      ]_vars

\* The header request could not be built: nothing was requested, the handshake
\* is not complete and the read duty has stopped the node.
C19_Witness ==
    /\ cause.reader = "check"
    /\ state.VersionReceived
    /\ ~state.HandshakeComplete
    /\ count.getheaders = 0
    /\ pc.reader = "done"
    /\ stopping

\* C20: the duty that gets an error from the dispatch of a message, or a timeout
\* from CheckTimeouts, takes exactly one point from the peer, then calls Stop,
\* then leaves its loop; between the error and the end of the duty it reads,
\* handles and checks nothing.
C20_FatalPenalizedThenStop ==
    [][ /\ (pc.reader = "handle" /\ pc'.reader = "stop")
            => /\ cause'.reader = "handle"
               /\ score' = score - 1
               /\ count'.stops = count.stops
        /\ (pc.timer = "sleep" /\ pc'.timer = "stop")
            => /\ score' = score - 1
               /\ count'.stops = count.stops
        /\ (pc.reader = "stop" /\ pc'.reader # "stop")
            => /\ pc'.reader = "done"
               /\ count'.stops = count.stops + 1
               /\ stopping'
               /\ score' = score
        /\ (pc.timer = "stop" /\ pc'.timer # "stop")
            => /\ pc'.timer = "done"
               /\ count'.stops = count.stops + 1
               /\ stopping'
               /\ score' = score
        /\ pc.reader \in {"stop", "done"}
            => /\ pc'.reader \in {"stop", "done"}
               /\ count'.reads = count.reads
               /\ state' = state
               /\ msg' = msg
        /\ pc.timer \in {"stop", "done"} => pc'.timer \in {"stop", "done"}
      ]_vars

\* A dispatch error has ended the read duty and a timeout the timeout duty, each
\* at the price of one point.
C20_Witness ==
    /\ cause.reader = "handle"
    /\ pc.reader = "done"
    /\ pc.timer = "done"
    /\ count.readerPenalty = 1
    /\ count.timerPenalty = 1
    /\ score = 0 - 2

\* C22: a Stop call gets the node lock and closes the channel, whatever the
\* calls of BroadcastTx do, even with the buffer of node.outgoing full: no
\* BroadcastTx keeps the lock for ever while it waits on its send.
C22_StopGetsLock ==
    <>(stopping /\ chanClosed /\ ~outgoingOpen /\ nodeMutex = "free")

\* The flags that check() writes.
CheckFlags == {"HeadersRequested", "HandshakeComplete", "ScoreUpdated",
               "AddressesRequested", "MemPoolRequested"}

\* In the sequence q every message `later` has a message `earlier` before it.
Precedes(q, earlier, later) ==
    \A i \in DOMAIN q : q[i] = later => \E k \in 1..(i - 1) : q[k] = earlier

\* C23: in every state of a connection HandshakeComplete implies VersionReceived
\* and HeadersRequested, ScoreUpdated implies Verified and HandshakeComplete,
\* AddressesRequested implies ScoreUpdated, MemPoolRequested implies
\* AddressesRequested; no flag written by check() is ever reset; and the header
\* request is enqueued before the get-address request, which is enqueued before
\* the mempool request.
C23_FlagsProgress ==
    [][ /\ state'.HandshakeComplete => state'.VersionReceived /\ state'.HeadersRequested
        /\ state'.ScoreUpdated => state'.Verified /\ state'.HandshakeComplete
        /\ state'.AddressesRequested => state'.ScoreUpdated
        /\ state'.MemPoolRequested => state'.AddressesRequested
        /\ \A f \in CheckFlags : state[f] => state'[f]
        /\ state'.AddressesRequested <=> count'.getaddr = 1
        /\ state'.MemPoolRequested <=> count'.mempool = 1
        /\ Precedes(log'.enqueued, "getheaders", "getaddr")
        /\ Precedes(log'.enqueued, "getaddr", "mempool")
      ]_vars

\* All flags are set and the three requests are on record.
C23_Witness ==
    /\ state.MemPoolRequested
    /\ {"getheaders", "getaddr", "mempool"} \subseteq Range(log.enqueued)

\* C24: the read duty never starts a transport read on the connection handle
\* that Stop has cleared: after a Stop of the timeout duty or of an external
\* caller between two reads, the next evaluation of node.conn gives a closed
\* connection, never nil, and the read fails instead of faulting.
C24_NoReadOnClearedHandle ==
    ~(stopping /\ pc.reader = "read" /\ handle.reader = "nil")

====
